---- MODULE Spec2Model ----
(***************************************************************************)
(* Vacancy semantic search: the record store generator                     *)
(* (scripts/create_vacancy_db.py), the index builder                        *)
(* (scripts/build_index.py) and the retrieval service (search.py, app.py),  *)
(* running as three processes over the same files.                          *)
(***************************************************************************)
EXTENDS Integers, Sequences, FiniteSets, TLC

VARIABLES db, gen, embFile, idMapFile, indexFile, bld, svc, resp

vars == <<db, gen, embFile, idMapFile, indexFile, bld, svc, resp>>

---------------------------------------------------------------------------
(* Bounds of the model *)

\* largest number of records one generator run inserts
MaxRecords == 2
\* number of runs of the index builder
MaxRuns == 2
\* longest query string typed by a user
MaxQueryLen == 1
\* largest k of a direct semantic_search call, besides the default TOP_K
MaxK == 1
\* longest id list of a direct get_vacancies_by_ids call
MaxIds == 1

(* Program constants *)
TOP_K == 5

\* dimension of the (one-hot) embedding space of the model
Dim == 2

---------------------------------------------------------------------------
(* Strings are sequences of characters *)

Space == " "
QueryChars == {Space, "p"}
TITLE == <<"T">>
\* the description generate_vacancy draws for record id of a table of n
\* records: one draw per table size, different for neighbouring records
Description(n, id) == IF (n + id) % 2 = 0 THEN <<"p">> ELSE <<"d">>
ExitWords == {<<"e", "x", "i", "t">>, <<"q", "u", "i", "t">>}
TypedExits == {<<"E", "x", "i", "t">>, <<Space, "q", "u", "i", "t">>}

BoundedStrings(chars, n) == UNION {[1..m -> chars] : m \in 0..n}

RECURSIVE LStrip(_)
LStrip(s) == IF s # <<>> /\ Head(s) = Space THEN LStrip(Tail(s)) ELSE s

RECURSIVE RStrip(_)
RStrip(s) ==
    IF s # <<>> /\ s[Len(s)] = Space THEN RStrip(SubSeq(s, 1, Len(s) - 1)) ELSE s

\* str.strip()
Strip(s) == RStrip(LStrip(s))

LowerChar(c) == IF c = "E" THEN "e" ELSE IF c = "Q" THEN "q" ELSE c

\* str.lower()
Lower(s) == [i \in 1..Len(s) |-> LowerChar(s[i])]

Queries ==
    BoundedStrings(QueryChars, MaxQueryLen) \cup TypedExits

---------------------------------------------------------------------------
(* The embedding function and the vector index *)

RECURSIVE Count(_, _)
Count(s, c) ==
    IF s = <<>> THEN 0 ELSE (IF Head(s) = c THEN 1 ELSE 0) + Count(Tail(s), c)

\* SentenceTransformer.encode on one text: a vector along one axis of the
\* embedding space, of a length that depends on the text
Encode(s) == [dir |-> (Count(s, "p") % Dim) + 1, norm |-> Len(s) + 1]

\* faiss.normalize_L2 on one vector
NormalizeL2(v) == [dir |-> v.dir, norm |-> 1]

InnerProduct(u, v) == IF u.dir = v.dir THEN u.norm * v.norm ELSE 0

\* model.encode(texts) followed by faiss.normalize_L2(embeddings)
EncodeAll(texts) == [i \in 1..Len(texts) |-> NormalizeL2(Encode(texts[i]))]

\* the orders in which IndexFlatIP may rank the positions `left` for a
\* query: a position of the largest inner product first (any of them when
\* several tie), then the others in the same way
RECURSIVE RankFrom(_, _, _)
RankFrom(left, vecs, qv) ==
    IF left = {} THEN {<<>>}
    ELSE LET best == {p \in left : \A o \in left :
                        InnerProduct(qv, vecs[p + 1]) >= InnerProduct(qv, vecs[o + 1])}
         IN  UNION {{<<p>> \o r : r \in RankFrom(left \ {p}, vecs, qv)} : p \in best}

Rankings(vecs, qv) == RankFrom(0..(Len(vecs) - 1), vecs, qv)

\* index.search(query, k): k labels, the best min(k, N) positions and then
\* the filler label -1
IndexSearch(vecs, qv, k) ==
    {[i \in 1..k |-> IF i <= Len(vecs) THEN r[i] ELSE -1] : r \in Rankings(vecs, qv)}

---------------------------------------------------------------------------
(* search.py: semantic_search *)

\* vacancy_ids[idx] on a Python list; 0 stands for IndexError
PyIndex(ids, idx) ==
    IF 0 <= idx /\ idx < Len(ids) THEN ids[idx + 1]
    ELSE IF idx < 0 /\ -idx <= Len(ids) THEN ids[Len(ids) + idx + 1]
    ELSE 0

InRangeNoLowerBound(idx, n) == idx < n

\* the test 0 <= idx < len(vacancy_ids)
InRange(idx, n) == 0 <= idx /\ idx < n

RECURSIVE ResolveUntilBad(_, _)
ResolveUntilBad(positions, ids) ==
    IF positions = <<>> THEN <<>>
    ELSE IF InRange(Head(positions), Len(ids))
         THEN <<PyIndex(ids, Head(positions))>> \o ResolveUntilBad(Tail(positions), ids)
         ELSE <<>>

\* the loop that turns the returned positions into vacancy ids
RECURSIVE ResolvePositions(_, _)
ResolvePositions(positions, ids) ==
    IF positions = <<>> THEN <<>>
    ELSE IF InRange(Head(positions), Len(ids))
         THEN <<PyIndex(ids, Head(positions))>> \o ResolvePositions(Tail(positions), ids)
         ELSE ResolvePositions(Tail(positions), ids)

NoFault == [at |-> "none", kind |-> "none"]

\* the failures an upstream call can raise during one query
Faults ==
    {NoFault}
        \cup {[at |-> "embed", kind |-> "FileNotFoundError"],
              [at |-> "search", kind |-> "RuntimeError"],
              [at |-> "db", kind |-> "sqlite3.Error"]}

\* semantic_search(query, model, index, vacancy_ids, k) when index.search
\* answers `positions`; raised is the exception that leaves the function
SemanticSearch(query, ids, positions, fault) ==
    IF fault.at = "embed"
    THEN [raised |-> fault.kind, embedded |-> FALSE, searched |-> FALSE,
          positions |-> <<>>, ids |-> <<>>]
    ELSE IF fault.at = "search"
    THEN [raised |-> fault.kind, embedded |-> TRUE, searched |-> FALSE,
          positions |-> <<>>, ids |-> <<>>]
    ELSE [raised |-> "none", embedded |-> TRUE, searched |-> TRUE,
          positions |-> positions, ids |-> ResolvePositions(positions, ids)]

\* the query vector semantic_search hands to index.search
QueryVector(query) == NormalizeL2(Encode(query))

---------------------------------------------------------------------------
(* search.py: get_vacancies_by_ids *)

Row(id, desc) == <<id, TITLE, desc>>

InSeq(x, s) == \E i \in 1..Len(s) : s[i] = x

\* select id, title, description from vacancies where id in (...): the rows
\* of the table in the table's own (rowid) order
RECURSIVE SelectIn(_, _, _)
SelectIn(rows, ids, from) ==
    IF from > Len(rows) THEN <<>>
    ELSE (IF InSeq(from, ids) THEN <<Row(from, rows[from])>> ELSE <<>>)
            \o SelectIn(rows, ids, from + 1)

\* id_to_result: the fetched rows keyed by id
IdToResult(fetched) ==
    [id \in {fetched[i][1] : i \in 1..Len(fetched)} |->
        (CHOOSE r \in {fetched[i] : i \in 1..Len(fetched)} : r[1] = id)]

HydrateInStoreOrder(ids, rows) == SelectIn(rows, ids, 1)

\* [id_to_result[vid] for vid in ids if vid in id_to_result]
RECURSIVE InRequestedOrder(_, _)
InRequestedOrder(ids, byId) ==
    IF ids = <<>> THEN <<>>
    ELSE (IF Head(ids) \in DOMAIN byId THEN <<byId[Head(ids)]>> ELSE <<>>)
            \o InRequestedOrder(Tail(ids), byId)

\* the result list of get_vacancies_by_ids over a readable table
Hydrate(ids, rows) == InRequestedOrder(ids, IdToResult(SelectIn(rows, ids, 1)))

\* the ids the warning "not found in the DB" names
MissingIds(ids, results) ==
    IF Len(results) < Len(ids)
    THEN {ids[i] : i \in 1..Len(ids)} \ {results[i][1] : i \in 1..Len(results)}
    ELSE {}

\* get_vacancies_by_ids(ids, db_path) on the store d: the rows returned, the
\* exception raised, the ids reported missing and the store afterwards
\* (sqlite3.connect creates the file when it is not there)
GetVacanciesByIds(ids, d, fault) ==
    IF ids = <<>>
    THEN [raised |-> "none", rows |-> <<>>, missing |-> {}, db |-> d]
    ELSE IF d.st # "ok"
    THEN [raised |-> "sqlite3.Error", rows |-> <<>>, missing |-> {},
          db |-> [st |-> "notable", rows |-> <<>>]]
    ELSE IF fault.at = "db"
    THEN [raised |-> fault.kind, rows |-> <<>>, missing |-> {}, db |-> d]
    ELSE LET res == Hydrate(ids, d.rows)
         IN  [raised |-> "none", rows |-> res, missing |-> MissingIds(ids, res), db |-> d]

---------------------------------------------------------------------------
(* State *)

\* a file that does not exist; run is the build run that wrote a file
NoFile == [run |-> 0, data |-> <<>>]

NoDb == [st |-> "missing", rows |-> <<>>]

BuilderIdle ==
    [pc |-> "idle", run |-> 0, rows |-> <<>>, ids |-> <<>>, texts |-> <<>>,
     emb |-> <<>>, outcome |-> "none", exit |-> "none"]

SvcDown ==
    [pc |-> "down", entry |-> "none", model |-> FALSE, index |-> NoFile,
     idmap |-> NoFile, signal |-> "none", missing |-> {}, warned |-> FALSE]

NoResp ==
    [op |-> "none", blank |-> FALSE, k |-> 0, outcome |-> "none", embedded |-> FALSE,
     searched |-> FALSE, positions |-> <<>>, ids |-> <<>>, rows |-> <<>>,
     missing |-> {}, raised |-> "none", detail |-> "none", shown |-> <<>>]

Init ==
    /\ db = NoDb
    /\ gen = "idle"
    /\ embFile = NoFile
    /\ idMapFile = NoFile
    /\ indexFile = NoFile
    /\ bld = BuilderIdle
    /\ svc = SvcDown
    /\ resp = NoResp

---------------------------------------------------------------------------
(* scripts/create_vacancy_db.py: main *)

\* os.remove(DB_PATH) when the file is there
DbRemove ==
    /\ gen = "idle"
    /\ gen' = "removed"
    /\ db' = NoDb
    /\ UNCHANGED <<embFile, idMapFile, indexFile, bld, svc, resp>>

\* sqlite3.connect(DB_PATH) creates the file
DbConnect ==
    /\ gen = "removed"
    /\ gen' = "connected"
    /\ db' = [st |-> "notable", rows |-> <<>>]
    /\ UNCHANGED <<embFile, idMapFile, indexFile, bld, svc, resp>>

\* CREATE TABLE vacancies
DbCreateTable ==
    /\ gen = "connected"
    /\ gen' = "created"
    /\ db' = [st |-> "ok", rows |-> <<>>]
    /\ UNCHANGED <<embFile, idMapFile, indexFile, bld, svc, resp>>

\* generate_vacancy for ids 1..n, executemany and commit
DbCommit ==
    /\ gen = "created"
    /\ gen' = "idle"
    /\ \E n \in 1..MaxRecords :
         db' = [st |-> "ok", rows |-> [id \in 1..n |-> Description(n, id)]]
    /\ UNCHANGED <<embFile, idMapFile, indexFile, bld, svc, resp>>

---------------------------------------------------------------------------
(* scripts/build_index.py *)

TableRows(rows) == {Row(i, rows[i]) : i \in 1..Len(rows)}

RECURSIVE OrderByIdDesc(_)
OrderByIdDesc(rowset) ==
    IF rowset = {} THEN <<>>
    ELSE LET r == CHOOSE x \in rowset : \A y \in rowset : x[1] >= y[1]
         IN  <<r>> \o OrderByIdDesc(rowset \ {r})

\* SELECT id, title, description FROM vacancies ORDER BY id
RECURSIVE OrderById(_)
OrderById(rowset) ==
    IF rowset = {} THEN <<>>
    ELSE LET r == CHOOSE x \in rowset : \A y \in rowset : x[1] <= y[1]
         IN  <<r>> \o OrderById(rowset \ {r})

\* f"{row[1]}. {row[2]}"
BuildText(row) == row[2] \o <<".", Space>> \o row[3]

\* load_vacancies: the ids and the texts of the rows, row by row
LoadVacancies(rows) ==
    LET fetched == OrderById(TableRows(rows))
    IN  [ids |-> [i \in 1..Len(fetched) |-> fetched[i][1]],
         texts |-> [i \in 1..Len(fetched) |-> BuildText(fetched[i])]]

\* the except clauses of main: a FileNotFoundError is logged and main
\* returns, every other exception is logged and raised again
MainExcept(kind) == IF kind = "FileNotFoundError" THEN "returned" ELSE "raised"

NoTextsNever(texts) == FALSE

\* "if not texts"
NoTexts(texts) == texts = <<>>

\* a run of main starts; step 1: load_vacancies and the empty check
BuildStart ==
    /\ bld.pc = "idle"
    /\ bld.run < MaxRuns
    /\ IF db.st = "missing"
       THEN bld' = [BuilderIdle EXCEPT !.run = bld.run + 1, !.outcome = "no_db",
                                       !.exit = MainExcept("FileNotFoundError")]
       ELSE IF db.st = "notable"
       THEN bld' = [BuilderIdle EXCEPT !.run = bld.run + 1, !.outcome = "raised",
                                       !.exit = MainExcept("sqlite3.Error")]
       ELSE IF NoTexts(LoadVacancies(db.rows).texts)
       THEN bld' = [BuilderIdle EXCEPT !.run = bld.run + 1, !.outcome = "empty",
                                       !.exit = "returned"]
       ELSE bld' = [pc |-> "loaded", run |-> bld.run + 1, rows |-> db.rows,
                    ids |-> LoadVacancies(db.rows).ids,
                    texts |-> LoadVacancies(db.rows).texts,
                    emb |-> <<>>, outcome |-> "running", exit |-> "none"]
    /\ UNCHANGED <<db, gen, embFile, idMapFile, indexFile, svc, resp>>

\* main, step 2: generate_embeddings
GenerateEmbeddings ==
    /\ bld.pc = "loaded"
    /\ bld' = [bld EXCEPT !.pc = "embedded", !.emb = EncodeAll(bld.texts)]
    /\ UNCHANGED <<db, gen, embFile, idMapFile, indexFile, svc, resp>>

\* save_embeddings: np.save(emb_file, embeddings)
SaveEmbeddings ==
    /\ bld.pc = "embedded"
    /\ embFile' = [run |-> bld.run, data |-> bld.emb]
    /\ bld' = [bld EXCEPT !.pc = "savedEmb"]
    /\ UNCHANGED <<db, gen, idMapFile, indexFile, svc, resp>>

\* save_embeddings: pickle.dump(ids, f)
SaveIdMap ==
    /\ bld.pc = "savedEmb"
    /\ idMapFile' = [run |-> bld.run, data |-> bld.ids]
    /\ bld' = [bld EXCEPT !.pc = "savedMap"]
    /\ UNCHANGED <<db, gen, embFile, indexFile, svc, resp>>

\* build_faiss_index: index.add(embeddings), faiss.write_index; the record
\* of a completed run keeps what the run read and computed
BuildFaissIndex ==
    /\ bld.pc = "savedMap"
    /\ indexFile' = [run |-> bld.run, data |-> bld.emb]
    /\ bld' = [bld EXCEPT !.pc = "idle", !.outcome = "done", !.exit = "returned"]
    /\ UNCHANGED <<db, gen, embFile, idMapFile, svc, resp>>

\* what SentenceTransformer(model) and model.encode can raise: a runtime
\* failure, or a model file that is not found
EmbedFailures == {"RuntimeError", "FileNotFoundError"}

\* what np.save, open/pickle.dump and faiss.write_index can raise
WriteFailures == {"OSError"}

\* the next call of main raises `kind`: the embedding function in step 2, a
\* storage write in steps 3 and 4; the callee logs and re-raises, the except
\* clauses of main decide how main ends, and the locals of main are gone
BuildFault(kind) ==
    /\ bld.pc \in {"loaded", "embedded", "savedEmb", "savedMap"}
    /\ kind \in (IF bld.pc = "loaded" THEN EmbedFailures ELSE WriteFailures)
    /\ bld' = [BuilderIdle EXCEPT
                 !.run = bld.run,
                 !.outcome = IF bld.pc = "loaded" THEN "embed_failed"
                             ELSE "write_failed",
                 !.exit = MainExcept(kind)]
    /\ UNCHANGED <<db, gen, embFile, idMapFile, indexFile, svc, resp>>

---------------------------------------------------------------------------
(* search.py: load_resources, called by app.py at import and by main *)

\* the files that are not there
MissingFiles ==
    (IF db.st = "missing" THEN {"db"} ELSE {})
        \cup (IF idMapFile.run = 0 THEN {"idmap"} ELSE {})
        \cup (IF indexFile.run = 0 THEN {"index"} ELSE {})

CheckFilesWithoutIndex(d, m, x) ==
    IF d.st = "missing" THEN "db" ELSE IF m.run = 0 THEN "idmap" ELSE "ok"

\* the three os.path.exists tests, in their order: the first file found
\* missing, or "ok"
CheckFiles(d, m, x) ==
    IF d.st = "missing" THEN "db"
    ELSE IF m.run = 0 THEN "idmap"
    ELSE IF x.run = 0 THEN "index"
    ELSE "ok"

Entries == {"web", "cli"}

\* process start and the existence checks of load_resources
LoadResourcesCheck(entry) ==
    /\ svc.pc = "down"
    /\ svc' = [svc EXCEPT
                 !.entry = entry,
                 !.missing = MissingFiles,
                 !.pc = IF CheckFiles(db, idMapFile, indexFile) = "ok"
                        THEN "checked" ELSE "failed",
                 !.signal = IF CheckFiles(db, idMapFile, indexFile) = "ok"
                            THEN "none" ELSE "FileNotFoundError"]
    /\ UNCHANGED <<db, gen, embFile, idMapFile, indexFile, bld, resp>>

\* model = SentenceTransformer(MODEL_NAME)
LoadResourcesModel ==
    /\ svc.pc = "checked"
    /\ svc' = [svc EXCEPT !.pc = "model", !.model = TRUE]
    /\ UNCHANGED <<db, gen, embFile, idMapFile, indexFile, bld, resp>>

\* index = faiss.read_index(FAISS_INDEX_FILE)
LoadResourcesIndex ==
    /\ svc.pc = "model"
    /\ svc' = IF indexFile.run = 0
              THEN [svc EXCEPT !.pc = "failed", !.signal = "RuntimeError"]
              ELSE [svc EXCEPT !.pc = "index", !.index = indexFile]
    /\ UNCHANGED <<db, gen, embFile, idMapFile, indexFile, bld, resp>>

\* vacancy_ids = pickle.load(f), the size comparison and the return
LoadResourcesIdMap ==
    /\ svc.pc = "index"
    /\ svc' = IF idMapFile.run = 0
              THEN [svc EXCEPT !.pc = "failed", !.signal = "FileNotFoundError"]
              ELSE [svc EXCEPT !.pc = "ready", !.idmap = idMapFile,
                               !.warned = (Len(svc.index.data) # Len(idMapFile.data))]
    /\ UNCHANGED <<db, gen, embFile, idMapFile, indexFile, bld, resp>>

\* the process ends (a failed start-up, the CLI's exit command, a stopped
\* web server) and a new one may start
SvcEnd ==
    /\ svc.pc \in {"failed", "exited", "ready"}
    /\ svc' = SvcDown
    /\ UNCHANGED <<db, gen, embFile, idMapFile, indexFile, bld, resp>>

---------------------------------------------------------------------------
(* Queries: app.py search_interface, search.py main, and direct calls *)

\* the marker "..." the two printers append
Ellipsis == <<".", ".", ".">>

\* the slice desc[:n]
Slice(desc, n) == SubSeq(desc, 1, IF Len(desc) < n THEN Len(desc) ELSE n)

\* the number of characters of a description search_interface shows
WebBudget == 200

\* the number of characters of a description print_results shows
CliBudget == 300

\* search_interface: f"{desc[:200]}..."
WebSnippet(desc) == Slice(desc, WebBudget) \o Ellipsis

\* print_results: desc[:300] and the marker if len(desc) > 300, else desc
CliSnippet(desc) ==
    IF Len(desc) > CliBudget THEN Slice(desc, CliBudget) \o Ellipsis ELSE desc

\* the snippets search_interface puts in its output, one per vacancy
WebOutput(vacancies) == [i \in 1..Len(vacancies) |-> WebSnippet(vacancies[i][3])]

\* the snippets print_results prints, one per vacancy
PrintResults(vacancies) == [i \in 1..Len(vacancies) |-> CliSnippet(vacancies[i][3])]

CaughtSqliteOnly(kind) == kind = "sqlite3.Error"

\* "except Exception" around one query: every kind of failure is caught
Caught(kind) == kind \in {"RuntimeError", "FileNotFoundError", "sqlite3.Error"}

\* the record of one call: the entry point, whether the query text is blank
\* after str.strip(), and k
Answer(op, query, k) ==
    [NoResp EXCEPT !.op = op, !.blank = (Strip(query) = <<>>), !.k = k]

\* what the body of the try block of search_interface computes
SearchInterfaceTry(query, positions, fault, d) ==
    LET ss == SemanticSearch(query, svc.idmap.data, positions, fault)
        gv == GetVacanciesByIds(ss.ids, d, fault)
        r0 == [Answer("web", query, TOP_K) EXCEPT
                 !.embedded = ss.embedded, !.searched = ss.searched,
                 !.positions = ss.positions, !.ids = ss.ids]
    IN  IF ss.raised # "none"
        THEN [resp |-> [r0 EXCEPT !.raised = ss.raised], db |-> d]
        ELSE IF ss.ids = <<>>
        THEN [resp |-> [r0 EXCEPT !.outcome = "nothing_found"], db |-> d]
        ELSE IF gv.raised # "none"
        THEN [resp |-> [r0 EXCEPT !.raised = gv.raised], db |-> gv.db]
        ELSE [resp |-> [r0 EXCEPT !.outcome = "results", !.rows = gv.rows,
                                  !.missing = gv.missing,
                                  !.shown = WebOutput(gv.rows)],
              db |-> gv.db]

\* what index.search answers in a call of semantic_search that reaches it
SearchAnswers(query, k, fault) ==
    IF fault.at \in {"embed", "search"} THEN {<<>>}
    ELSE IndexSearch(svc.index.data, QueryVector(query), k)

\* search_interface(query)
SearchInterface(query, fault) ==
    /\ svc.pc = "ready"
    /\ svc.entry = "web"
    /\ IF Strip(query) = <<>>
       THEN /\ resp' = [Answer("web", query, TOP_K) EXCEPT !.outcome = "ask_again"]
            /\ db' = db
       ELSE \E positions \in SearchAnswers(query, TOP_K, fault) :
            LET t == SearchInterfaceTry(query, positions, fault, db)
            IN  /\ db' = t.db
                /\ resp' = IF t.resp.raised = "none" THEN t.resp
                           ELSE IF Caught(t.resp.raised)
                           THEN [t.resp EXCEPT !.outcome = "search_failed"]
                           ELSE [t.resp EXCEPT !.outcome = "unhandled",
                                               !.detail = t.resp.raised]
    /\ UNCHANGED <<gen, embFile, idMapFile, indexFile, bld, svc>>

\* what the body of the inner try block of main computes
MainLoopTry(query, positions, fault, d) ==
    LET ss == SemanticSearch(query, svc.idmap.data, positions, fault)
        gv == GetVacanciesByIds(ss.ids, d, fault)
        r0 == [Answer("cli", query, TOP_K) EXCEPT
                 !.embedded = ss.embedded, !.searched = ss.searched,
                 !.positions = ss.positions, !.ids = ss.ids]
    IN  IF ss.raised # "none"
        THEN [resp |-> [r0 EXCEPT !.raised = ss.raised], db |-> d]
        ELSE IF gv.raised # "none"
        THEN [resp |-> [r0 EXCEPT !.raised = gv.raised], db |-> gv.db]
        ELSE [resp |-> [r0 EXCEPT
                          !.outcome = IF gv.rows = <<>> THEN "nothing_found"
                                      ELSE "results",
                          !.rows = gv.rows, !.missing = gv.missing,
                          !.shown = PrintResults(gv.rows)],
              db |-> gv.db]

\* one turn of the loop of main on the typed line
MainLoop(line, fault) ==
    /\ svc.pc = "ready"
    /\ svc.entry = "cli"
    /\ LET query == Strip(line)
       IN  IF Lower(query) \in ExitWords
           THEN /\ resp' = [Answer("cli", query, TOP_K) EXCEPT !.outcome = "bye"]
                /\ svc' = [svc EXCEPT !.pc = "exited"]
                /\ db' = db
           ELSE IF query = <<>>
           THEN /\ resp' = [Answer("cli", query, TOP_K) EXCEPT !.outcome = "ask_again"]
                /\ svc' = svc
                /\ db' = db
           ELSE \E positions \in SearchAnswers(query, TOP_K, fault) :
                LET t == MainLoopTry(query, positions, fault, db)
                IN  /\ db' = t.db
                    /\ IF t.resp.raised = "none"
                       THEN /\ resp' = t.resp
                            /\ svc' = svc
                       ELSE IF Caught(t.resp.raised)
                       THEN /\ resp' = [t.resp EXCEPT !.outcome = "search_failed"]
                            /\ svc' = svc
                       ELSE /\ resp' = [t.resp EXCEPT !.outcome = "unhandled",
                                                      !.detail = t.resp.raised]
                            /\ svc' = [svc EXCEPT
                                         !.pc = "failed",
                                         !.signal =
                                            IF t.resp.raised = "FileNotFoundError"
                                            THEN "FileNotFoundError" ELSE "Exception"]
    /\ UNCHANGED <<gen, embFile, idMapFile, indexFile, bld>>

\* a direct call semantic_search(query, model, index, vacancy_ids, k)
CallSemanticSearch(query, k) ==
    /\ svc.pc = "ready"
    /\ \E positions \in SearchAnswers(query, k, NoFault) :
       LET ss == SemanticSearch(query, svc.idmap.data, positions, NoFault)
       IN  resp' = [Answer("semantic_search", query, k) EXCEPT
                      !.embedded = ss.embedded, !.searched = ss.searched,
                      !.positions = ss.positions, !.ids = ss.ids,
                      !.raised = ss.raised,
                      !.outcome = IF ss.raised = "none" THEN "returned" ELSE "raised"]
    /\ UNCHANGED <<db, gen, embFile, idMapFile, indexFile, bld, svc>>

IdLists == BoundedStrings(1..(MaxRecords + 1), MaxIds)

\* a direct call get_vacancies_by_ids(ids, DB_PATH)
CallGetVacancies(ids) ==
    /\ svc.pc = "ready"
    /\ LET gv == GetVacanciesByIds(ids, db, NoFault)
       IN  /\ db' = gv.db
           /\ resp' = [NoResp EXCEPT
                         !.op = "get_vacancies_by_ids",
                         !.ids = ids, !.rows = gv.rows, !.missing = gv.missing,
                         !.raised = gv.raised,
                         !.outcome = IF gv.raised = "none" THEN "returned" ELSE "raised"]
    /\ UNCHANGED <<gen, embFile, idMapFile, indexFile, bld, svc>>

\* the answer has gone to the caller; nothing else of the system is looked
\* at between a handler's return and the delivery of its answer
Return ==
    /\ resp # NoResp
    /\ resp' = NoResp
    /\ UNCHANGED <<db, gen, embFile, idMapFile, indexFile, bld, svc>>

---------------------------------------------------------------------------

Ks == (1..MaxK) \cup {TOP_K}

TypedQueries == BoundedStrings(QueryChars, MaxQueryLen)

Next ==
    \/ Return
    \/ resp = NoResp /\ DbRemove
    \/ resp = NoResp /\ DbConnect
    \/ resp = NoResp /\ DbCreateTable
    \/ resp = NoResp /\ DbCommit
    \/ resp = NoResp /\ BuildStart
    \/ resp = NoResp /\ GenerateEmbeddings
    \/ resp = NoResp /\ SaveEmbeddings
    \/ resp = NoResp /\ SaveIdMap
    \/ resp = NoResp /\ BuildFaissIndex
    \/ resp = NoResp /\ \E kind \in EmbedFailures \cup WriteFailures : BuildFault(kind)
    \/ resp = NoResp /\ \E e \in Entries : LoadResourcesCheck(e)
    \/ resp = NoResp /\ LoadResourcesModel
    \/ resp = NoResp /\ LoadResourcesIndex
    \/ resp = NoResp /\ LoadResourcesIdMap
    \/ resp = NoResp /\ SvcEnd
    \/ resp = NoResp /\ \E q \in Queries, f \in Faults : SearchInterface(q, f)
    \/ resp = NoResp /\ \E q \in Queries, f \in Faults : MainLoop(q, f)
    \/ resp = NoResp /\ \E q \in TypedQueries, k \in Ks : CallSemanticSearch(q, k)
    \/ resp = NoResp /\ \E ids \in IdLists : CallGetVacancies(ids)

Spec == Init /\ [][Next]_vars

---------------------------------------------------------------------------
(* Claims *)

IndexSize == Len(svc.index.data)

MapLength == Len(svc.idmap.data)

\* C1: a service whose start-up has returned resources never holds an ID Map
\* whose length differs from the size of its Vector Index: load_resources
\* fails on the mismatch, so no query runs against a mismatched pair.
C1_MismatchFailsLoad == svc.pc = "ready" => MapLength = IndexSize

\* C2: after a build run that a storage write failure ended, with an ID Map
\* file and an index file on disk, the two files are both of this run or
\* both of an earlier run.
C2_FailedBuildKeepsPair ==
    (bld.outcome = "write_failed" /\ idMapFile.run # 0 /\ indexFile.run # 0) =>
        ((idMapFile.run = bld.run) <=> (indexFile.run = bld.run))

\* C3: a start-up that finishes loading while a build run is in progress
\* holds an ID Map and a Vector Index written by the same build run.
C3_LoadSeesOneRun ==
    [][(svc.pc = "index" /\ svc'.pc = "ready" /\ bld.pc # "idle")
          => svc'.idmap.run = svc'.index.run]_vars

\* the ids of the positions inside the ID Map, in the order of the positions
ExpectedIds(positions, ids) ==
    LET good == SelectSeq(positions, LAMBDA p : p \in 0..(Len(ids) - 1))
    IN  [i \in 1..Len(good) |-> ids[good[i] + 1]]

\* C4: whenever the index search has answered, the ids semantic_search
\* yields are exactly IDMap[p] for the returned positions p with
\* 0 <= p < len(IDMap), in the order returned; positions outside the range
\* are skipped and a direct call still returns.
C4_PositionsResolved ==
    resp.searched =>
        /\ resp.ids = ExpectedIds(resp.positions, svc.idmap.data)
        /\ resp.op = "semantic_search" => resp.outcome = "returned"

C4_Witness ==
    /\ resp.searched
    /\ \E i, j \in 1..Len(resp.positions) :
         /\ i < j
         /\ resp.positions[i] >= MapLength
         /\ resp.positions[j] \in 0..(MapLength - 1)
    /\ \E i \in 1..Len(resp.positions) : resp.positions[i] < 0
    /\ resp.ids # <<>>

HydrationReturned ==
    \/ resp.op = "get_vacancies_by_ids" /\ resp.raised = "none"
    \/ resp.op = "web" /\ resp.outcome = "results"
    \/ resp.op = "cli" /\ resp.outcome \in {"results", "nothing_found"}

\* the records of the ids that are in the store, in the order of the ids
ExpectedRows(ids, rows) ==
    LET present == SelectSeq(ids, LAMBDA id : id \in 1..Len(rows))
    IN  [i \in 1..Len(present) |-> <<present[i], TITLE, rows[present[i]]>>]

\* C5: get_vacancies_by_ids returns the records of exactly the input ids
\* that are in the store, in input order; absent ids are dropped and
\* reported; the empty list gives the empty list; and the call raises only
\* when the store itself cannot be read.
C5_HydrateInInputOrder ==
    /\ HydrationReturned =>
         /\ resp.rows = ExpectedRows(resp.ids, db.rows)
         /\ resp.missing = {resp.ids[i] : i \in 1..Len(resp.ids)} \ (1..Len(db.rows))
         /\ resp.ids = <<>> => resp.rows = <<>>
    /\ (resp.op = "get_vacancies_by_ids" /\ resp.raised # "none") => db.st # "ok"

C5_Witness ==
    /\ HydrationReturned
    /\ Len(resp.rows) >= 2
    /\ resp.rows[1][1] > resp.rows[2][1]

\* C6: a start-up that finds one of the three files missing ends with the
\* FileNotFoundError signal before the model, the index or the ID Map is
\* loaded and answers no query; and that signal only ever comes from a
\* start-up that found a file missing.
C6_MissingFileFailsFast ==
    /\ svc.missing # {} =>
         /\ svc.pc = "failed"
         /\ svc.signal = "FileNotFoundError"
         /\ ~svc.model
         /\ svc.index = NoFile
         /\ svc.idmap = NoFile
         /\ resp = NoResp
    /\ svc.signal = "FileNotFoundError" => (svc.missing # {} /\ resp = NoResp)

C6_Witness ==
    /\ svc.pc = "failed"
    /\ svc.signal = "FileNotFoundError"
    /\ svc.missing = {"index"}

\* C7: an empty or whitespace-only query is answered "ask again" without
\* being embedded and without a search of the index, on the web interface,
\* in the CLI loop and in semantic_search itself.
C7_BlankQueryRejected ==
    (resp.op \in {"web", "cli", "semantic_search"} /\ resp.blank) =>
        /\ ~resp.embedded
        /\ ~resp.searched
        /\ resp.outcome = "ask_again"

\* C8: a failure raised during one web or CLI query gives the fixed "search
\* failed" answer with no internal detail, and the service is still ready
\* for the next query.
C8_QueryFailureContained ==
    (resp.op \in {"web", "cli"} /\ resp.raised # "none") =>
        /\ resp.outcome = "search_failed"
        /\ resp.detail = "none"
        /\ svc.pc = "ready"
        /\ svc.signal = "none"

C8_Witness ==
    /\ resp.op = "cli"
    /\ resp.raised = "FileNotFoundError"
    /\ resp.outcome = "search_failed"

\* C9: with an ID Map as long as the index (N) and k > N, a search that
\* reaches the index gives exactly N ids, each id of the map once.
C9_LargeKGivesAll ==
    (resp.searched /\ MapLength = IndexSize /\ resp.k > IndexSize) =>
        /\ Len(resp.ids) = IndexSize
        /\ {resp.ids[i] : i \in 1..Len(resp.ids)}
             = {svc.idmap.data[i] : i \in 1..MapLength}

C9_Witness ==
    /\ resp.searched
    /\ MapLength = IndexSize
    /\ IndexSize >= 2
    /\ resp.k > IndexSize
    /\ Len(resp.ids) = IndexSize

\* C10: when a build run over a non-empty record set has completed, the ID
\* Map file and the index file are of that run, both have as many entries as
\* the run read records, the ids are in ascending order, and the vector at
\* each position is the normalized embedding of the text of the record
\* whose id the ID Map has at that position.
C10_BuildAligned ==
    bld.outcome = "done" =>
        /\ idMapFile.run = bld.run
        /\ indexFile.run = bld.run
        /\ Len(idMapFile.data) = Len(bld.rows)
        /\ Len(indexFile.data) = Len(bld.rows)
        /\ \A p \in 1..Len(idMapFile.data) :
             /\ idMapFile.data[p] \in 1..Len(bld.rows)
             /\ indexFile.data[p] =
                  NormalizeL2(Encode(TITLE \o <<".", Space>>
                                       \o bld.rows[idMapFile.data[p]]))
        /\ \A p, q \in 1..Len(idMapFile.data) :
             p < q => idMapFile.data[p] < idMapFile.data[q]

C10_Witness ==
    /\ bld.outcome = "done"
    /\ Len(indexFile.data) >= 2
    /\ indexFile.data[1] # indexFile.data[2]

\* C11: a build run that finds the record store empty ends in that step with
\* the empty store reported, and the embeddings file, the ID Map file and the
\* index file are exactly what they were before the run.
C11_EmptyBuildWritesNothing ==
    [][(bld.pc = "idle" /\ bld'.run = bld.run + 1 /\ db.st = "ok" /\ db.rows = <<>>)
          => /\ bld'.pc = "idle"
             /\ bld'.outcome = "empty"
             /\ embFile' = embFile
             /\ idMapFile' = idMapFile
             /\ indexFile' = indexFile]_vars

\* an empty run after a complete one: the three files are still the first run's
C11_Witness ==
    /\ bld.outcome = "empty"
    /\ bld.run = 2
    /\ embFile.run = 1 /\ embFile.data # <<>>
    /\ idMapFile.run = 1 /\ idMapFile.data # <<>>
    /\ indexFile.run = 1 /\ indexFile.data # <<>>

\* none of the three files was written by the run the builder last ended
NothingWrittenByRun ==
    /\ embFile.run # bld.run
    /\ idMapFile.run # bld.run
    /\ indexFile.run # bld.run

\* C12: after a build run in which the embedding function failed, main has
\* ended by raising the error to its caller, and none of the three files was
\* written by that run.
C12_EmbedFailurePropagates ==
    bld.outcome = "embed_failed" => (bld.exit = "raised" /\ NothingWrittenByRun)

\* the part of C12 about the files alone
C12_EmbedFailureWritesNothing ==
    bld.outcome = "embed_failed" => NothingWrittenByRun

\* the description cut to the budget, with the marker exactly when it was
\* longer than the budget
ExpectedSnippet(desc, budget) ==
    IF Len(desc) > budget THEN SubSeq(desc, 1, budget) \o Ellipsis ELSE desc

\* C13: every result the web interface (budget 200) or the CLI (budget 300)
\* shows has as its snippet the description cut to the budget, with the
\* ellipsis marker appended exactly when the description was longer than the
\* budget; a description that fits is shown unchanged.
C13_SnippetWithinBudget ==
    (resp.op \in {"web", "cli"} /\ resp.outcome = "results") =>
        /\ Len(resp.shown) = Len(resp.rows)
        /\ \A i \in 1..Len(resp.rows) :
             resp.shown[i] =
                ExpectedSnippet(resp.rows[i][3],
                                IF resp.op = "web" THEN WebBudget ELSE CliBudget)

\* the same for the CLI alone
C13_CliSnippetWithinBudget ==
    (resp.op = "cli" /\ resp.outcome = "results") =>
        /\ Len(resp.shown) = Len(resp.rows)
        /\ \A i \in 1..Len(resp.rows) :
             resp.shown[i] = ExpectedSnippet(resp.rows[i][3], CliBudget)

\* a step of the Retrieval Service: a step of load_resources, or a query or
\* direct call handing back its answer
ServiceStep == svc' # svc \/ (resp = NoResp /\ resp' # NoResp)

\* C14: no step of the Retrieval Service (load_resources, a web or CLI
\* query, a direct semantic_search or get_vacancies_by_ids call, successful
\* or failing) changes the record store, the ID Map file, the index file or
\* the embeddings file, and a service that is ready before and after a step
\* holds the same in-memory model, index and ID Map.
C14_ServiceReadOnly ==
    [][/\ ServiceStep => /\ db' = db
                         /\ idMapFile' = idMapFile
                         /\ indexFile' = indexFile
                         /\ embFile' = embFile
       /\ (svc.pc = "ready" /\ svc'.pc = "ready")
             => /\ svc'.model = svc.model
                /\ svc'.index = svc.index
                /\ svc'.idmap = svc.idmap]_vars

\* the parts of C14 about the two artifact files and the loaded resources
C14_ArtifactsReadOnly ==
    [][/\ ServiceStep => /\ idMapFile' = idMapFile
                         /\ indexFile' = indexFile
                         /\ embFile' = embFile
       /\ (svc.pc = "ready" /\ svc'.pc = "ready")
             => /\ svc'.model = svc.model
                /\ svc'.index = svc.index
                /\ svc'.idmap = svc.idmap]_vars

====
